---- MODULE Spec2Model ----
(***************************************************************************)
(* Model of process_pdfs.py: the text normalizer (clean_text), the title   *)
(* selector (extract_title_smart), the heading classifier                  *)
(* (detect_intelligent_heading), the outline builder                       *)
(* (extract_outline_exact) and the batch driver (process_pdfs).            *)
(*                                                                         *)
(* A Python str is a sequence of one-character strings.  A regular         *)
(* expression applied with re.match is evaluated as the set of positions   *)
(* the match can have reached, starting from {1}; the match succeeds iff   *)
(* the set is not empty at the end of the pattern (this accounts for       *)
(* backtracking).                                                          *)
(***************************************************************************)
EXTENDS Integers, Sequences, FiniteSets, TLC

VARIABLES
    line,         \* detect_intelligent_heading: the raw line of the last call
    page_num,     \* detect_intelligent_heading: the page number of the last call
    heading,      \* detect_intelligent_heading: what the last call returned
    first_page,   \* extract_title_smart: pdf.pages of the document of the last call
    title,        \* extract_title_smart: what the last call returned
    pdf_files,    \* process_pdfs: the documents found in the input directory
                  \* (extract_outline_exact alone: pdf.pages of its document)
    idx,          \* process_pdfs: number of documents the loop has handled
    output,       \* process_pdfs: the records written, in order of writing
                  \* (extract_outline_exact alone: the outline it returned)
    errors,       \* process_pdfs: the documents reported by the except branch
                  \* (extract_outline_exact alone: not empty when it raised)
    pc            \* which call is in progress / finished

vars == <<line, page_num, heading, first_page, title, pdf_files, idx, output, errors, pc>>

(***************************************************************************)
(* Characters                                                              *)
(***************************************************************************)
UpperChars == <<"A","B","C","D","E","F","G","H","I","J","K","L","M",
                "N","O","P","Q","R","S","T","U","V","W","X","Y","Z">>

LowerChars == <<"a","b","c","d","e","f","g","h","i","j","k","l","m",
                "n","o","p","q","r","s","t","u","v","w","x","y","z">>

UpperSet == {UpperChars[i] : i \in 1..26}

LowerSet == {LowerChars[i] : i \in 1..26}

DigitSet == {"0","1","2","3","4","5","6","7","8","9"}

SpaceSet == {" ", "\t", "\n", "\r", "\f"}

IsDigit(c) == c \in DigitSet

IsSpace(c) == c \in SpaceSet

IsUpperChar(c) == c \in UpperSet

IsLowerChar(c) == c \in LowerSet

IsRoman(c) == c \in {"i", "v", "x"}

NotNewline(c) == c # "\n"

\* the lowercase letter of every uppercase letter
LowerOf == [u \in UpperSet |-> LowerChars[CHOOSE i \in 1..26 : UpperChars[i] = u]]

\* str.lower() on one character
LowerChar(c) == IF c \in UpperSet THEN LowerOf[c] ELSE c

\* str.lower()
lower(s) == [i \in 1..Len(s) |-> LowerChar(s[i])]

\* str.isupper(): at least one cased character and no lowercase one
isupper(s) ==
    /\ \E i \in 1..Len(s) : IsUpperChar(s[i])
    /\ \A i \in 1..Len(s) : ~IsLowerChar(s[i])

\* str.startswith(w)
startswith(s, w) == Len(s) >= Len(w) /\ SubSeq(s, 1, Len(w)) = w

\* str.endswith(w)
endswith(s, w) == Len(s) >= Len(w) /\ SubSeq(s, Len(s) - Len(w) + 1, Len(s)) = w

\* w in s
contains(s, w) ==
    \E p \in 1..(Len(s) - Len(w) + 1) : SubSeq(s, p, p + Len(w) - 1) = w

\* str.strip()
strip(s) ==
    IF \A i \in 1..Len(s) : IsSpace(s[i])
    THEN << >>
    ELSE LET a == CHOOSE i \in 1..Len(s) :
                      ~IsSpace(s[i]) /\ \A j \in 1..(i-1) : IsSpace(s[j])
             b == CHOOSE i \in 1..Len(s) :
                      ~IsSpace(s[i]) /\ \A j \in (i+1)..Len(s) : IsSpace(s[j])
         IN  SubSeq(s, a, b)

\* len(s.split()): the number of whitespace-separated tokens
tokens(s) ==
    Cardinality({i \in 1..Len(s) :
                    ~IsSpace(s[i]) /\ (i = 1 \/ IsSpace(s[i-1]))})

\* s.split('\n')
split_lines(s) ==
    LET nl  == SelectSeq([i \in 1..Len(s) |-> i], LAMBDA i : s[i] = "\n")
        cut == <<0>> \o nl \o <<Len(s) + 1>>
    IN  [k \in 1..(Len(nl) + 1) |-> SubSeq(s, cut[k] + 1, cut[k+1] - 1)]

\* re.sub(r'\s+', ' ', s): every maximal whitespace run becomes one space
sub_spaces(s) ==
    LET marked == [i \in 1..Len(s) |->
                     IF IsSpace(s[i])
                     THEN (IF i > 1 /\ IsSpace(s[i-1]) THEN "" ELSE " ")
                     ELSE s[i]]
    IN  SelectSeq(marked, LAMBDA c : c # "")

\* clean_text; None and "" are both the empty sequence here
clean_text(text) ==
    IF text = << >> THEN << >> ELSE sub_spaces(strip(text))

(***************************************************************************)
(* Regular expressions under re.match: position sets                       *)
(***************************************************************************)
\* a literal string
Lit(s, P, w) ==
    {p + Len(w) : p \in {q \in P : q + Len(w) - 1 <= Len(s)
                                      /\ SubSeq(s, q, q + Len(w) - 1) = w}}

\* one of several literal strings: (a|b|c)
Alt(s, P, W) == UNION {Lit(s, P, w) : w \in W}

\* an optional literal: w?
Opt(s, P, w) == P \cup Lit(s, P, w)

\* the character classes of the patterns: \d, \s, [ivx], \. and . (any
\* character but a newline)
InClass(c, class) ==
    CASE class = "digit" -> IsDigit(c)
      [] class = "space" -> IsSpace(c)
      [] class = "ivx"   -> IsRoman(c)
      [] class = "dot"   -> c = "."
      [] class = "any"   -> NotNewline(c)

\* class+ : one or more characters of the class
Plus(s, P, class) ==
    UNION {{q \in (p+1)..(Len(s)+1) : \A i \in p..(q-1) : InClass(s[i], class)} : p \in P}

\* class* : zero or more characters of the class
Star(s, P, class) == P \cup Plus(s, P, class)

\* class{lo,hi}
Rep(s, P, class, lo, hi) ==
    UNION {{q \in (p+lo)..(p+hi) :
               q <= Len(s) + 1 /\ \A i \in p..(q-1) : InClass(s[i], class)}
             : p \in P}

\* $ : the end of the string
AtEnd(s, P) == {p \in P : p = Len(s) + 1}

Start == {1}

(***************************************************************************)
(* detect_intelligent_heading                                              *)
(***************************************************************************)
None == << >>

CopyrightSign == "©"

MinLineLen == 3

MaxLineLen == 200

CapsMinLen == 5

CapsMaxLen == 60

CapsMaxTokens == 8

ColonMinLen == 10

ColonMaxLen == 80

ColonMaxTokens == 10

Months ==
    { <<"j","a","n">>, <<"f","e","b">>, <<"m","a","r">>, <<"a","p","r">>,
      <<"m","a","y">>, <<"j","u","n">>, <<"j","u","l">>, <<"a","u","g">>,
      <<"s","e","p">>, <<"o","c","t">>, <<"n","o","v">>, <<"d","e","c">> }

\* r'^\d+$'
skip_pure_number(s) == AtEnd(s, Plus(s, Start, "digit")) # {}

\* mutant: the page pattern anchored at the end too, r'^page\s+\d+$'
skip_page_number_whole_line(s) ==
    AtEnd(s, Plus(s, Plus(s, Lit(s, Start, <<"p","a","g","e">>), "space"), "digit")) # {}

\* r'^page\s+\d+'
skip_page_number(s) ==
    Plus(s, Plus(s, Lit(s, Start, <<"p","a","g","e">>), "space"), "digit") # {}

\* r'^©.*'
skip_copyright(s) ==
    Star(s, Lit(s, Start, <<CopyrightSign>>), "any") # {}

\* r'^www\.'
skip_www(s) == Lit(s, Start, <<"w","w","w",".">>) # {}

\* r'^http'
skip_http(s) == Lit(s, Start, <<"h","t","t","p">>) # {}

\* r'^\d{1,2}\s+(jan|feb|mar|apr|may|jun|jul|aug|sep|oct|nov|dec)'
skip_date(s) ==
    Alt(s, Plus(s, Rep(s, Start, "digit", 1, 2), "space"), Months) # {}

\* r'\.{3,}' under re.match, which only matches at the start of the string
skip_dots(s) == Star(s, Lit(s, Start, <<".",".",".">>), "dot") # {}

\* for pattern in skip_patterns: if re.match(pattern, line_lower)
skip_patterns(s) ==
    \/ skip_pure_number(s)
    \/ skip_page_number(s)
    \/ skip_copyright(s)
    \/ skip_www(s)
    \/ skip_http(s)
    \/ skip_date(s)
    \/ skip_dots(s)

\* r'^(\d+)\.\s+(.+)'
h1_numbered(s) ==
    Plus(s, Plus(s, Lit(s, Plus(s, Start, "digit"), <<".">>), "space"), "any") # {}

\* the tail \s*:?\s*(.+) shared by the chapter and the part pattern
h1_named_tail(s, P) ==
    Plus(s, Star(s, Opt(s, Star(s, P, "space"), <<":">>), "space"), "any")

\* r'^(chapter\s+\d+)\s*:?\s*(.+)'
h1_chapter(s) ==
    h1_named_tail(s,
        Plus(s, Plus(s, Lit(s, Start, <<"c","h","a","p","t","e","r">>), "space"),
             "digit")) # {}

\* r'^(part\s+[ivx]+)\s*:?\s*(.+)'
h1_part(s) ==
    h1_named_tail(s,
        Plus(s, Plus(s, Lit(s, Start, <<"p","a","r","t">>), "space"), "ivx")) # {}

\* for pattern in h1_patterns: if re.match(pattern, line_lower)
h1_patterns(s) == h1_numbered(s) \/ h1_chapter(s) \/ h1_part(s)

h1_sections ==
    { <<"i","n","t","r","o","d","u","c","t","i","o","n">>,
      <<"o","v","e","r","v","i","e","w">>,
      <<"b","a","c","k","g","r","o","u","n","d">>,
      <<"s","u","m","m","a","r","y">>,
      <<"c","o","n","c","l","u","s","i","o","n">>,
      <<"r","e","f","e","r","e","n","c","e","s">>,
      <<"b","i","b","l","i","o","g","r","a","p","h","y">>,
      <<"a","c","k","n","o","w","l","e","d","g","e","m","e","n","t","s">>,
      <<"a","c","k","n","o","w","l","e","d","g","m","e","n","t","s">>,
      <<"a","p","p","e","n","d","i","x">>,
      <<"i","n","d","e","x">>,
      <<"g","l","o","s","s","a","r","y">>,
      <<"a","b","s","t","r","a","c","t">>,
      <<"r","e","v","i","s","i","o","n"," ","h","i","s","t","o","r","y">>,
      <<"t","a","b","l","e"," ","o","f"," ","c","o","n","t","e","n","t","s">> }

\* mutant: the whitespace after the number is not required, r'^(\d+\.\d+)(.+)'
h2_patterns_no_space(s) ==
    Plus(s, Plus(s, Lit(s, Plus(s, Start, "digit"), <<".">>), "digit"), "any") # {}

\* r'^(\d+\.\d+)\s+(.+)'
h2_patterns(s) ==
    Plus(s, Plus(s, Plus(s, Lit(s, Plus(s, Start, "digit"), <<".">>), "digit"),
                 "space"), "any") # {}

\* r'^(\d+\.\d+\.\d+)\s+(.+)'
h3_patterns(s) ==
    Plus(s, Plus(s, Plus(s, Lit(s, Plus(s, Lit(s, Plus(s, Start, "digit"), <<".">>),
                                         "digit"), <<".">>), "digit"),
                 "space"), "any") # {}

\* mutant: "no lowercase letter" instead of str.isupper()
all_caps_rule_no_lowercase(l) ==
    /\ \A i \in 1..Len(l) : ~IsLowerChar(l[i])
    /\ CapsMinLen <= Len(l) /\ Len(l) <= CapsMaxLen
    /\ tokens(l) <= CapsMaxTokens

\* line.isupper() and 5 <= len(line) <= 60 and len(line.split()) <= 8
all_caps_rule(l) ==
    /\ isupper(l)
    /\ CapsMinLen <= Len(l) /\ Len(l) <= CapsMaxLen
    /\ tokens(l) <= CapsMaxTokens

\* line.endswith(':') and 10 <= len(line) <= 80 and len(line.split()) <= 10
colon_rule(l) ==
    /\ endswith(l, <<":">>)
    /\ ColonMinLen <= Len(l) /\ Len(l) <= ColonMaxLen
    /\ tokens(l) <= ColonMaxTokens

\* mutant: every trailing colon removed, line.rstrip(':').strip()
colon_text_rstrip(l) ==
    LET keep == {i \in 1..Len(l) : l[i] # ":"}
        last == IF keep = {} THEN 0 ELSE CHOOSE i \in keep : \A j \in keep : j <= i
    IN  strip(SubSeq(l, 1, last))

\* line[:-1].strip()
colon_text(l) == strip(SubSeq(l, 1, Len(l) - 1))

\* mutant: the two formatting heuristics tried before the pattern rules
level_rules_heuristics_first(l) ==
    LET line_lower == lower(l)
    IN  IF all_caps_rule(l) THEN <<"H1", l>>
        ELSE IF colon_rule(l) THEN <<"H2", colon_text(l)>>
        ELSE IF h1_patterns(line_lower) THEN <<"H1", l>>
        ELSE IF strip(line_lower) \in h1_sections THEN <<"H1", l>>
        ELSE IF h2_patterns(line_lower) THEN <<"H2", l>>
        ELSE IF h3_patterns(line_lower) THEN <<"H3", l>>
        ELSE None

\* the level rules, in the order of the code; l is the cleaned line
level_rules(l) ==
    LET line_lower == lower(l)
    IN  IF h1_patterns(line_lower) THEN <<"H1", l>>
        ELSE IF strip(line_lower) \in h1_sections THEN <<"H1", l>>
        ELSE IF h2_patterns(line_lower) THEN <<"H2", l>>
        ELSE IF h3_patterns(line_lower) THEN <<"H3", l>>
        ELSE IF all_caps_rule(l) THEN <<"H1", l>>
        ELSE IF colon_rule(l) THEN <<"H2", colon_text(l)>>
        ELSE None

\* detect_intelligent_heading(line, page_num): None or (level, text)
detect_intelligent_heading(raw, pn) ==
    LET l == clean_text(raw)
    IN  IF Len(l) < MinLineLen \/ Len(l) > MaxLineLen THEN None
        ELSE IF skip_patterns(lower(l)) THEN None
        ELSE level_rules(l)

(***************************************************************************)
(* Input lines: concatenations of at most MaxPieces pieces                 *)
(***************************************************************************)
MaxPieces == 3

LongLen == 70

Pieces ==
    { <<"1">>,
      <<"1",".">>,
      <<"1",".","1",".">>,
      <<".",".",".">>,
      <<"\t">>,
      <<":">>,
      <<" ","S","c","o","p","e">>,
      <<" ","O","V","E","R","V","I","E","W">>,
      <<"C","h","a","p","t","e","r">>,
      <<"P","a","r","t"," ","I","V">>,
      <<"P","A","G","E">>,
      <<CopyrightSign>>,
      <<"w","w","w",".">>,
      <<" ","J","a","n">>,
      <<" ","A"," ","B"," ","C"," ","D"," ","E"," ","F">>,
      [i \in 1..LongLen |-> "X"] }

RECURSIVE Concat(_)
Concat(ps) == IF ps = << >> THEN << >> ELSE Head(ps) \o Concat(Tail(ps))

(***************************************************************************)
(* Specification of one call of detect_intelligent_heading.  The function  *)
(* never reads its page_num parameter, so one page number is enough.       *)
(***************************************************************************)
InitClassify ==
    /\ \E n \in 0..MaxPieces : \E ps \in [1..n -> Pieces] : line = Concat(ps)
    /\ page_num = 1
    /\ heading = None
    /\ first_page = << >>
    /\ title = << >>
    /\ pdf_files = << >>
    /\ idx = 0
    /\ output = << >>
    /\ errors = {}
    /\ pc = "idle"

Classify ==
    /\ pc = "idle"
    /\ heading' = detect_intelligent_heading(line, page_num)
    /\ pc' = "classified"
    /\ UNCHANGED <<line, page_num, first_page, title, pdf_files, idx, output, errors>>

NextClassify == Classify

SpecClassify == InitClassify /\ [][NextClassify]_vars

(***************************************************************************)
(* Properties of detect_intelligent_heading (under SpecClassify).          *)
(* The shapes below are stated directly on the characters of the line,     *)
(* not through the regular-expression operators of the model.              *)
(***************************************************************************)
Classified == pc = "classified"

\* the normalized line of the call
Norm == clean_text(line)

\* positions 1..k of s are digits, k >= 1
DigitsUpTo(s, k) == k >= 1 /\ k <= Len(s) /\ \A i \in 1..k : IsDigit(s[i])

\* positions a..b of s all belong to the set of characters, a <= b
Run(s, a, b, chars) == a <= b /\ b <= Len(s) /\ \A i \in a..b : s[i] \in chars

\* digits '.' whitespace, then at least one more character
NumberedShape(s) ==
    \E k \in 1..Len(s) :
        /\ DigitsUpTo(s, k)
        /\ Len(s) >= k + 3
        /\ s[k+1] = "."
        /\ IsSpace(s[k+2])

\* word, whitespace, one or more characters of the class, then at least one
\* more character (the optional whitespace and ':' may all be empty)
NamedShape(s, word, chars) ==
    /\ startswith(lower(s), word)
    /\ \E a \in (Len(word)+1)..Len(s) :
          /\ Run(lower(s), Len(word) + 1, a, SpaceSet)
          /\ \E b \in (a+1)..Len(s) :
                /\ Run(lower(s), a + 1, b, chars)
                /\ Len(s) >= b + 1

H1Shape(s) ==
    \/ NumberedShape(s)
    \/ NamedShape(s, <<"c","h","a","p","t","e","r">>, DigitSet)
    \/ NamedShape(s, <<"p","a","r","t">>, {"i", "v", "x"})

\* digits '.' digits, whitespace, then at least one more character
TwoLevelShape(s) ==
    \E a \in 1..Len(s) :
        /\ DigitsUpTo(s, a)
        /\ Len(s) > a /\ s[a+1] = "."
        /\ \E b \in (a+2)..Len(s) :
              /\ Run(s, a + 2, b, DigitSet)
              /\ Len(s) >= b + 2
              /\ IsSpace(s[b+1])

\* digits '.' digits '.' digits, whitespace, then at least one more character
ThreeLevelShape(s) ==
    \E a \in 1..Len(s) :
        /\ DigitsUpTo(s, a)
        /\ Len(s) > a /\ s[a+1] = "."
        /\ \E b \in (a+2)..Len(s) :
              /\ Run(s, a + 2, b, DigitSet)
              /\ Len(s) > b /\ s[b+1] = "."
              /\ \E c \in (b+2)..Len(s) :
                    /\ Run(s, b + 2, c, DigitSet)
                    /\ Len(s) >= c + 2
                    /\ IsSpace(s[c+1])

\* begins with "page", whitespace and a digit (case-insensitive)
PagePrefix(s) ==
    /\ startswith(lower(s), <<"p","a","g","e">>)
    /\ \E a \in 5..Len(s) : Run(s, 5, a, SpaceSet) /\ a < Len(s) /\ IsDigit(s[a+1])

\* three consecutive '.' somewhere in the line
HasLeaderDots(s) == \E p \in 1..(Len(s) - 2) : s[p] = "." /\ s[p+1] = "." /\ s[p+2] = "."

\* one or two digits, whitespace, a month abbreviation
DatePrefix(s) ==
    \E k \in 1..2 : \E a \in (k+1)..Len(s) :
        /\ DigitsUpTo(s, k)
        /\ Run(s, k + 1, a, SpaceSet)
        /\ a + 3 <= Len(s)
        /\ SubSeq(lower(s), a + 1, a + 3) \in Months

\* the exclusions of step 2 as the specification lists them
Excluded(s) ==
    \/ DigitsUpTo(s, Len(s))
    \/ PagePrefix(s)
    \/ startswith(s, <<CopyrightSign>>)
    \/ startswith(lower(s), <<"w","w","w",".">>)
    \/ startswith(lower(s), <<"h","t","t","p">>)
    \/ DatePrefix(s)
    \/ HasLeaderDots(s)

InLength(s) == MinLineLen <= Len(s) /\ Len(s) <= MaxLineLen

NoLowercase(s) == \A i \in 1..Len(s) : ~IsLowerChar(s[i])

HasUppercase(s) == \E i \in 1..Len(s) : IsUpperChar(s[i])

\* no rule before the all-caps rule decides the line
ReachesRule5(s) ==
    /\ InLength(s)
    /\ ~Excluded(s)
    /\ ~H1Shape(s)
    /\ lower(s) \notin h1_sections
    /\ ~TwoLevelShape(s)
    /\ ~ThreeLevelShape(s)

CapsSized(s) ==
    /\ CapsMinLen <= Len(s) /\ Len(s) <= CapsMaxLen
    /\ tokens(s) <= CapsMaxTokens

\* no rule before the colon rule decides the line
ReachesRule6(s) ==
    /\ ReachesRule5(s)
    /\ ~(HasUppercase(s) /\ NoLowercase(s) /\ CapsSized(s))

ColonSized(s) ==
    /\ Len(s) >= 1 /\ s[Len(s)] = ":"
    /\ ColonMinLen <= Len(s) /\ Len(s) <= ColonMaxLen
    /\ tokens(s) <= ColonMaxTokens

\* t is s with its last character ':' removed and then trimmed
ColonStripped(s, t) ==
    /\ s = t \o <<":">> \/ s = t \o <<" ", ":">>
    /\ t = << >> \/ ~IsSpace(t[Len(t)])

\* C1: a non-excluded line of length 3..200 that matches an H1 numbered/named
\* pattern is classified H1 with the full normalized line as text (a trailing
\* ':' kept), whatever later rules would say.
C1_H1PatternWins ==
    (Classified /\ InLength(Norm) /\ ~Excluded(Norm) /\ H1Shape(Norm))
        => heading = <<"H1", Norm>>

\* C1 witness: an H1-pattern line that is all caps and ends with ':' came out
\* as H1 with the colon kept.
C1_Witness ==
    /\ Classified
    /\ NumberedShape(Norm)
    /\ HasUppercase(Norm) /\ NoLowercase(Norm) /\ CapsSized(Norm)
    /\ ColonSized(Norm)
    /\ heading = <<"H1", Norm>>

\* C2 (as claimed): a line with three or more consecutive '.' anywhere is
\* classified as none.
C2_DotsAnywhereExcluded ==
    (Classified /\ HasLeaderDots(Norm)) => heading = None

\* C5 (as claimed): a line that reaches rule 5 with no lowercase letter, length
\* 5..60 and at most 8 tokens is classified H1, also when it has no letters.
C5_NoLowercaseIsCaps ==
    (Classified /\ ReachesRule5(Norm) /\ NoLowercase(Norm) /\ CapsSized(Norm))
        => heading = <<"H1", Norm>>

\* C5 (amended): a line that reaches rule 5 with at least one uppercase letter,
\* no lowercase letter, length 5..60 and at most 8 tokens is classified H1 with
\* the full normalized line; a line that reaches rule 5 without any uppercase
\* letter is never classified H1.
C5_AllCapsNeedsALetter ==
    /\ (Classified /\ ReachesRule5(Norm) /\ HasUppercase(Norm) /\ NoLowercase(Norm)
           /\ CapsSized(Norm))
          => heading = <<"H1", Norm>>
    /\ (Classified /\ ReachesRule5(Norm) /\ ~HasUppercase(Norm))
          => (heading = None \/ heading[1] = "H2")

\* C5 witness: a letterless line of length 5..60 reached rule 5 and was not
\* classified by it.
C5_Witness ==
    /\ Classified
    /\ ReachesRule5(Norm)
    /\ ~HasUppercase(Norm) /\ NoLowercase(Norm) /\ CapsSized(Norm)
    /\ heading = None

\* C6: a non-excluded line of length 3..200 that starts with three-level
\* numbering is classified H3 with the full normalized line as text.
C6_ThreeLevelIsH3 ==
    (Classified /\ InLength(Norm) /\ ~Excluded(Norm) /\ ThreeLevelShape(Norm))
        => heading = <<"H3", Norm>>

\* C6 witness: a three-level numbered line was classified H3.
C6_Witness ==
    Classified /\ ThreeLevelShape(Norm) /\ heading = <<"H3", Norm>>

\* C9: a line that reaches rule 6, ends with ':', has length 10..80 and at most
\* 10 tokens is classified H2 with the line minus exactly one trailing ':',
\* trimmed, as text.
C9_ColonRule ==
    (Classified /\ ReachesRule6(Norm) /\ ColonSized(Norm))
        => /\ Len(heading) = 2
           /\ heading[1] = "H2"
           /\ ColonStripped(Norm, heading[2])

\* C9 witness: a line ending with two colons was classified H2 and kept one.
C9_Witness ==
    /\ Classified
    /\ ReachesRule6(Norm) /\ ColonSized(Norm)
    /\ endswith(Norm, <<":", ":">>)
    /\ Len(heading) = 2
    /\ heading[1] = "H2"
    /\ endswith(heading[2], <<":">>)

\* C10: a line that begins with 'page', whitespace and digits is classified as
\* none, also when it is all caps or ends with ':'.
C10_PageLineExcluded ==
    (Classified /\ InLength(Norm) /\ PagePrefix(Norm)) => heading = None

\* C10 witness: an all-caps line of the size of rule 5 that begins with
\* 'PAGE 1' came out as none.
C10_Witness ==
    /\ Classified
    /\ PagePrefix(Norm)
    /\ HasUppercase(Norm) /\ NoLowercase(Norm) /\ CapsSized(Norm)
    /\ heading = None

(***************************************************************************)
(* extract_title_smart                                                     *)
(*                                                                         *)
(* A page is [kind, text]: kind "text" when extract_text() returns a str   *)
(* (possibly empty), "none" when it returns None, "raises" when it raises. *)
(***************************************************************************)
TitleMinLen == 15

TitleMaxLen == 150

TitleMinTokens == 3

TitleMaxCandidates == 15

TextPage(t) == [kind |-> "text", text |-> t]

NonePage == [kind |-> "none", text |-> << >>]

RaisingPage == [kind |-> "raises", text |-> << >>]

\* the words of the metadata filter
title_skip_words ==
    { <<"c","o","p","y","r","i","g","h","t">>,
      <<"v","e","r","s","i","o","n">>,
      <<"p","a","g","e">>,
      <<CopyrightSign>>,
      <<"d","a","t","e">>,
      <<"w","w","w">>,
      <<"h","t","t","p">> }

\* [clean_text(line) for line in text.split('\n') if clean_text(line)]
clean_lines(text) ==
    LET raw == split_lines(text)
    IN  SelectSeq([k \in 1..Len(raw) |-> clean_text(raw[k])], LAMBDA l : l # << >>)

\* mutant: every line is a candidate, lines instead of lines[:15]
title_candidates_all(lines) == lines

\* lines[:15]
title_candidates(lines) ==
    SubSeq(lines, 1, IF Len(lines) < TitleMaxCandidates THEN Len(lines)
                     ELSE TitleMaxCandidates)

\* the three nested conditions on one candidate line
title_ok(l) ==
    /\ TitleMinLen <= Len(l) /\ Len(l) <= TitleMaxLen
    /\ tokens(l) >= TitleMinTokens
    /\ ~\E skip \in title_skip_words : contains(lower(l), skip)
    /\ Lit(l, Plus(l, Start, "digit"), <<".">>) = {}
    /\ ~startswith(lower(l), <<"t","a","b","l","e"," ","o","f">>)

\* extract_title_smart, on the pages of an opened document whose first page
\* does not raise
extract_title_smart(pages) ==
    IF pages = << >> THEN << >>
    ELSE IF pages[1].kind # "text" \/ pages[1].text = << >> THEN << >>
    ELSE LET cand == title_candidates(clean_lines(pages[1].text))
             hits == {i \in 1..Len(cand) : title_ok(cand[i])}
         IN  IF hits = {} THEN << >>
             ELSE cand[CHOOSE i \in hits : \A j \in hits : i <= j] \o <<" ", " ">>

(***************************************************************************)
(* First pages: concatenations of at most MaxTitlePieces pieces            *)
(***************************************************************************)
MaxTitlePieces == 3

BlockLines == 14

TitleLongLen == 130

ShortLine == <<"A","c","m","e"," ","C","o","r","p","\n">>

TitlePieces ==
    { <<"\n">>,
      ShortLine,
      Concat([k \in 1..BlockLines |-> ShortLine]),
      <<"A","n","n","u","a","l"," ","R","e","p","o","r","t"," ","o","n"," ","T","r","e","n","d","s">>,
      <<"M","a","r","k","e","t"," ","T","r","e","n","d","s"," ","i","n"," ","A","s","i","a">>,
      <<" ","C","o","p","y","r","i","g","h","t">>,
      <<" ","V","e","r","s","i","o","n">>,
      <<" ","P","a","g","e">>,
      <<CopyrightSign>>,
      <<"\t"," ","U","p","d","a","t","e">>,
      <<" ","w","w","w">>,
      <<" ","h","t","t","p">>,
      <<"1",".">>,
      <<"T","a","b","l","e"," ","o","f"," ">>,
      [i \in 1..TitleLongLen |-> "x"] }

(***************************************************************************)
(* Specification of one call of extract_title_smart                        *)
(***************************************************************************)
InitTitle ==
    /\ line = << >>
    /\ page_num = 0
    /\ heading = None
    /\ \/ first_page = << >>
       \/ first_page = <<NonePage>>
       \/ \E n \in 0..MaxTitlePieces : \E ps \in [1..n -> TitlePieces] :
             first_page = <<TextPage(Concat(ps))>>
    /\ title = << >>
    /\ pdf_files = << >>
    /\ idx = 0
    /\ output = << >>
    /\ errors = {}
    /\ pc = "idle"

SelectTitle ==
    /\ pc = "idle"
    /\ title' = extract_title_smart(first_page)
    /\ pc' = "titled"
    /\ UNCHANGED <<line, page_num, heading, first_page, pdf_files, idx, output, errors>>

NextTitle == SelectTitle

SpecTitle == InitTitle /\ [][NextTitle]_vars

(***************************************************************************)
(* Properties of extract_title_smart (under SpecTitle)                     *)
(***************************************************************************)
Titled == pc = "titled"

\* the non-empty normalized lines of the first page, in page order
FirstPageLines ==
    IF first_page = << >> \/ first_page[1].kind # "text" THEN << >>
    ELSE clean_lines(first_page[1].text)

\* the conditions the specification puts on a title candidate
Acceptable(s) ==
    /\ Len(s) \in 15..150
    /\ Cardinality({i \in 1..Len(s) : s[i] = " "}) + 1 >= 3
    /\ LET ls == lower(s)
       IN  \A w \in title_skip_words :
              \A p \in 1..(Len(s) - Len(w) + 1) : SubSeq(ls, p, p + Len(w) - 1) # w
    /\ ~\E k \in 1..(Len(s) - 1) : DigitsUpTo(s, k) /\ s[k+1] = "."
    /\ ~startswith(lower(s), <<"t","a","b","l","e"," ","o","f">>)

\* the lines among the first 15 that are acceptable
AcceptableAmongFirst15 ==
    {i \in 1..Len(FirstPageLines) : i <= 15 /\ Acceptable(FirstPageLines[i])}

\* C3: the title is the first acceptable line among the first 15 non-empty
\* normalized lines of the first page, with two spaces appended; it is empty
\* when there is none (no pages, no text, or only later lines qualify).
C3_TitleIsFirstAcceptable ==
    Titled =>
        IF AcceptableAmongFirst15 = {}
        THEN title = << >>
        ELSE \E i \in AcceptableAmongFirst15 :
                /\ \A j \in AcceptableAmongFirst15 : i <= j
                /\ title = FirstPageLines[i] \o <<" ", " ">>

\* C3 witness: the first page has an acceptable line, but only after the first
\* 15 non-empty lines, and the title is empty.
C3_Witness ==
    /\ Titled
    /\ \E i \in 1..Len(FirstPageLines) : i > 15 /\ Acceptable(FirstPageLines[i])
    /\ AcceptableAmongFirst15 = {}
    /\ title = << >>

(***************************************************************************)
(* extract_outline_exact                                                   *)
(***************************************************************************)
\* the headings of one page, in line order (the inner for loop)
page_headings(text, pn) ==
    LET raw  == split_lines(text)
        cand == [k \in 1..Len(raw) |->
                   LET line_clean == clean_text(raw[k])
                   IN  IF line_clean = << >> \/ Len(line_clean) < MinLineLen
                       THEN None
                       ELSE detect_intelligent_heading(line_clean, pn)]
        hits == SelectSeq(cand, LAMBDA h : h # None)
    IN  [k \in 1..Len(hits) |-> [level |-> hits[k][1], text |-> hits[k][2], page |-> pn]]

\* the list `outline` after the loop over the pages: pages without text are
\* skipped, page numbers start at 1
outline_of_pages(pages) ==
    Concat([pn \in 1..Len(pages) |->
              IF pages[pn].kind # "text" \/ pages[pn].text = << >>
              THEN << >>
              ELSE page_headings(pages[pn].text, pn)])

\* mutant: the page is left out of the key, (item["level"], item["text"])
dedup_key_no_page(item) == <<item.level, item.text, 0>>

\* key = (item["level"], item["text"], item["page"])
dedup_key(item) == <<item.level, item.text, item.page>>

\* the loop with `seen`: the first item of every key, in order
remove_duplicates(outline) ==
    LET first == SelectSeq([k \in 1..Len(outline) |-> k],
                           LAMBDA k : \A j \in 1..(k-1) :
                                         dedup_key(outline[j]) # dedup_key(outline[k]))
    IN  [i \in 1..Len(first) |-> outline[first[i]]]

\* page.extract_text() raises on some page: the exception leaves the function
outline_raises(pages) == \E pn \in 1..Len(pages) : pages[pn].kind = "raises"

\* extract_outline_exact, on the pages of an opened document none of whose
\* pages raises
extract_outline_exact(pages) == remove_duplicates(outline_of_pages(pages))

(***************************************************************************)
(* Documents: at most MaxPages pages, each of one of PageKinds             *)
(***************************************************************************)
MaxPages == 3

PageOne ==
    TextPage(<<"1","."," ","S","c","o","p","e","\n",
               "O","V","E","R","V","I","E","W","\n",
               "\t","1","."," "," ","S","c","o","p","e","\n",
               "a","b","\n",
               "p","l","a","i","n"," ","b","o","d","y"," ","o","f"," ","t","e","x","t">>)

PageTwo ==
    TextPage(<<"O","V","E","R","V","I","E","W","\n",
               "1",".","1"," ","S","c","o","p","e","\n",
               "O","V","E","R","V","I","E","W">>)

BlankPage == TextPage(<<" ","\n","\t">>)

EmptyPage == TextPage(<< >>)

PageKinds == {NonePage, EmptyPage, BlankPage, RaisingPage, PageOne, PageTwo}

(***************************************************************************)
(* Specification of one call of extract_outline_exact on an opened         *)
(* document.  pdf_files holds the pages, output the returned outline (when *)
(* the call returns) and errors is not empty when the call raised.         *)
(***************************************************************************)
InitOutline ==
    /\ line = << >>
    /\ page_num = 0
    /\ heading = None
    /\ first_page = << >>
    /\ title = << >>
    /\ \E n \in 0..MaxPages : pdf_files \in [1..n -> PageKinds]
    /\ idx = 0
    /\ output = << >>
    /\ errors = {}
    /\ pc = "idle"

BuildOutline ==
    /\ pc = "idle"
    /\ IF outline_raises(pdf_files)
       THEN /\ errors' = {"raised"}
            /\ output' = output
       ELSE /\ output' = extract_outline_exact(pdf_files)
            /\ errors' = errors
    /\ pc' = "built"
    /\ UNCHANGED <<line, page_num, heading, first_page, title, pdf_files, idx>>

NextOutline == BuildOutline

SpecOutline == InitOutline /\ [][NextOutline]_vars

(***************************************************************************)
(* Properties of extract_outline_exact (under SpecOutline)                 *)
(***************************************************************************)
Built == pc = "built"

Returned == pc = "built" /\ errors = {}

\* the unfiltered classification sequence of the document
Unfiltered == outline_of_pages(pdf_files)

\* the index of the first occurrence of entry e in sequence u
FirstIndex(u, e) == CHOOSE k \in 1..Len(u) : u[k] = e /\ \A j \in 1..(k-1) : u[j] # e

\* C4: the returned outline has no two equal (level, text, page) entries, holds
\* exactly the distinct entries of the unfiltered sequence, and lists them in the
\* order of their first occurrence there.
C4_DedupKeepsFirstOccurrences ==
    Returned =>
        /\ \A i, j \in 1..Len(output) : i # j => output[i] # output[j]
        /\ {output[i] : i \in 1..Len(output)} = {Unfiltered[k] : k \in 1..Len(Unfiltered)}
        /\ \A i, j \in 1..Len(output) :
              i < j => FirstIndex(Unfiltered, output[i]) < FirstIndex(Unfiltered, output[j])

\* C4 witness: a duplicate was removed and two entries that differ only in the
\* page were both kept.
C4_Witness ==
    /\ Returned
    /\ Len(output) < Len(Unfiltered)
    /\ \E i, j \in 1..Len(output) :
          /\ output[i].level = output[j].level
          /\ output[i].text = output[j].text
          /\ output[i].page # output[j].page

\* the pages of the document that have text and whose extraction succeeds
ReadablePages == {pn \in 1..Len(pdf_files) : pdf_files[pn].kind = "text"}

\* the headings of page pn, with pn as their page
HeadingsOn(pn) ==
    LET h == page_headings(pdf_files[pn].text, pn) IN {h[k] : k \in 1..Len(h)}

\* C7 (as claimed): outline building returns normally whatever the pages are
\* (absent text, empty text, failed extraction), and the outline holds exactly
\* the headings of the other pages, each with its physical page number.
C7_BadPageDoesNotAbort ==
    Built =>
        /\ errors = {}
        /\ {output[i] : i \in 1..Len(output)} = UNION {HeadingsOn(pn) : pn \in ReadablePages}

(***************************************************************************)
(* process_pdfs                                                            *)
(*                                                                         *)
(* A document is [opens, pages]: pdfplumber.open raises when opens is      *)
(* FALSE.  pdf_files is the list the glob returned, idx the number of      *)
(* files the loop has handled, output the records written so far (in order *)
(* of writing, each with the index of its input file) and errors the files *)
(* the except branch reported.                                             *)
(***************************************************************************)
MaxDocs == 3

Doc(pages) == [opens |-> TRUE, pages |-> pages]

UnopenableDoc == [opens |-> FALSE, pages |-> << >>]

BatchDocs ==
    { UnopenableDoc,
      Doc(<< >>),
      Doc(<<PageOne>>),
      Doc(<<NonePage, PageTwo>>),
      Doc(<<RaisingPage, PageOne>>),
      Doc(<<PageOne, RaisingPage>>) }

\* extract_title_smart(pdf_file) raises: the open, or extract_text() on page 1
title_raises(doc) ==
    \/ ~doc.opens
    \/ doc.pages # << >> /\ doc.pages[1].kind = "raises"

\* the body of the try block raises before the record is written
try_raises(doc) ==
    \/ title_raises(doc)
    \/ ~doc.opens
    \/ outline_raises(doc.pages)

Init ==
    /\ line = << >>
    /\ page_num = 0
    /\ heading = None
    /\ first_page = << >>
    /\ title = << >>
    /\ \E n \in 0..MaxDocs : pdf_files \in [1..n -> BatchDocs]
    /\ idx = 0
    /\ output = << >>
    /\ errors = {}
    /\ pc = "loop"

\* mutant: no try/except around the loop body, the first exception ends the run
ProcessFileUncaught ==
    /\ pc = "loop"
    /\ idx < Len(pdf_files)
    /\ LET doc == pdf_files[idx + 1]
       IN  IF try_raises(doc)
           THEN /\ pc' = "crashed"
                /\ UNCHANGED <<output, errors, idx>>
           ELSE /\ output' = Append(output,
                                [file    |-> idx + 1,
                                 title   |-> extract_title_smart(doc.pages),
                                 outline |-> extract_outline_exact(doc.pages)])
                /\ idx' = idx + 1
                /\ UNCHANGED <<errors, pc>>
    /\ UNCHANGED <<line, page_num, heading, first_page, title, pdf_files>>

\* one iteration of `for pdf_file in pdf_files`, with its try/except
ProcessFile ==
    /\ pc = "loop"
    /\ idx < Len(pdf_files)
    /\ LET doc == pdf_files[idx + 1]
       IN  IF try_raises(doc)
           THEN /\ errors' = errors \cup {idx + 1}
                /\ output' = output
           ELSE /\ output' = Append(output,
                                [file    |-> idx + 1,
                                 title   |-> extract_title_smart(doc.pages),
                                 outline |-> extract_outline_exact(doc.pages)])
                /\ errors' = errors
    /\ idx' = idx + 1
    /\ UNCHANGED <<line, page_num, heading, first_page, title, pdf_files, pc>>

\* the loop is over: process_pdfs returns
Complete ==
    /\ pc = "loop"
    /\ idx = Len(pdf_files)
    /\ pc' = "done"
    /\ UNCHANGED <<line, page_num, heading, first_page, title, pdf_files, idx, output, errors>>

Next == ProcessFile \/ Complete

Spec == Init /\ [][Next]_vars

(***************************************************************************)
(* Properties of process_pdfs (under Spec)                                 *)
(***************************************************************************)
\* the document cannot be opened, or one of its pages fails to extract
Failing(doc) == ~doc.opens \/ \E pn \in 1..Len(doc.pages) : doc.pages[pn].kind = "raises"

RecordsOf(i) == {k \in 1..Len(output) : output[k].file = i}

\* C8: every handled document that fails is reported and has no record, every
\* other handled document has exactly one record {title, outline} and is not
\* reported, whatever came before it; and the run goes on to the end of the
\* batch.
C8_FailureIsolation ==
    /\ \A i \in 1..idx :
          IF Failing(pdf_files[i])
          THEN i \in errors /\ RecordsOf(i) = {}
          ELSE /\ i \notin errors
               /\ Cardinality(RecordsOf(i)) = 1
               /\ \A k \in RecordsOf(i) :
                     /\ output[k].title = extract_title_smart(pdf_files[i].pages)
                     /\ output[k].outline = extract_outline_exact(pdf_files[i].pages)
    /\ pc = "done" => idx = Len(pdf_files)
    /\ pc \in {"loop", "done"}

\* C8 witness: the run is over, and a failing document stood between two
\* documents that each got their record.
C8_Witness ==
    /\ pc = "done"
    /\ \E i, j, k \in 1..Len(pdf_files) :
          /\ i < j /\ j < k
          /\ ~Failing(pdf_files[i]) /\ Failing(pdf_files[j]) /\ ~Failing(pdf_files[k])
          /\ j \in errors
          /\ RecordsOf(i) # {} /\ RecordsOf(j) = {} /\ RecordsOf(k) # {}
====
